---- MODULE Spec2Model ----
(***************************************************************************)
(* A model of the PBLU archive reader of src/src/hpk.rs.                   *)
(*                                                                         *)
(* Two state machines share this module.                                   *)
(*   SpecOpen  Archive::open: read_header, then the recursive              *)
(*             read_directory_loop, unfolded into call frames.             *)
(*   SpecView  a FileData view (FileData::new, then read and seek calls on *)
(*             the Plain or Zlib variant).                                 *)
(* The archive is a sequence of bytes; every table row, name entry and     *)
(* payload header is decoded from those bytes the way the code decodes it. *)
(* A file offset o is element o+1 of the sequence.                         *)
(***************************************************************************)
EXTENDS Integers, Sequences, FiniteSets, TLC

VARIABLES
    file,            \* the bytes of the archive file on disk
    tbl_rows,        \* how many rows the archive's writer put in the file table
    \* ---- Archive::open ----
    pc,              \* "start" | "resolving" | "ok" | "failed"
    filetbl_offset,  \* ArchiveFile.filetbl_offset
    stack,           \* read_directory_loop's stack: Vec<u32>
    frames,          \* the live read_directory_loop calls, outermost first
    call,            \* index of the call about to start, 0 when none
    rootdir,         \* Archive.rootdir once open has succeeded
    err,             \* the error open failed with, "" when none
    \* ---- a FileData view ----
    build,           \* "debug" (overflow checks on) | "release" (wrapping)
    fentry,          \* the file's FileTableEntry, as Archive::file_data passes it
    payload,         \* the logical bytes the archive's writer stored for the file
    fdata,           \* the FileData: its variant and the variant's fields
    ret              \* the last call on the view: its argument, the position it
                     \* counts from (base) and what it returned

openVars == <<pc, filetbl_offset, stack, frames, call, rootdir, err>>
viewVars == <<build, fentry, payload, fdata, ret>>
vars == <<file, tbl_rows, openVars, viewVars>>

\* ------------------------------------------------------------------ bytes

Min(a, b) == IF a < b THEN a ELSE b

\* byteorder::LittleEndian::read_u16 / read_u32 of the bytes at offset o of b.
read_u16(b, o) == b[o + 1] + 256 * b[o + 2]
read_u32(b, o) == b[o + 1] + 256 * b[o + 2] + 65536 * b[o + 3] + 16777216 * b[o + 4]

\* The writer's side: the little-endian bytes of a number.
LE16(x) == <<x % 256, (x \div 256) % 256>>
LE32(x) == <<x % 256, (x \div 256) % 256, (x \div 65536) % 256, (x \div 16777216) % 256>>

Zeros(n) == [i \in 1..n |-> 0]

\* seek(SeekFrom::Start(o)) followed by read_exact of n bytes on the archive
\* file: the bytes, or an I/O error (UnexpectedEof) when the file ends first.
ReadExactAt(b, o, n) ==
    IF o + n <= Len(b)
    THEN [ok |-> TRUE, bytes |-> SubSeq(b, o + 1, o + n)]
    ELSE [ok |-> FALSE, bytes |-> <<>>]

\* ------------------------------------------------------- archives on disk

MAGIC == 1280659522          \* 0x4C555042, "PBLU"
HEADER_LEN == 32             \* the 0x20 bytes read_header reads
FILE_ENTRY_SIZE == 8
NAME_ENTRY_MIN_SIZE == 10

\* The concatenation of ss[lo..hi], and the sum of their lengths, by halving.
RECURSIVE ConcatRange(_, _, _)
ConcatRange(ss, lo, hi) ==
    IF lo > hi THEN <<>>
    ELSE IF lo = hi THEN ss[lo]
    ELSE LET mid == (lo + hi) \div 2
         IN ConcatRange(ss, lo, mid) \o ConcatRange(ss, mid + 1, hi)

Concat(ss) == ConcatRange(ss, 1, Len(ss))

RECURSIVE SumLenRange(_, _, _)
SumLenRange(ss, lo, hi) ==
    IF lo > hi THEN 0
    ELSE IF lo = hi THEN Len(ss[lo])
    ELSE LET mid == (lo + hi) \div 2
         IN SumLenRange(ss, lo, mid) + SumLenRange(ss, mid + 1, hi)

SumLen(ss, n) == SumLenRange(ss, 1, n)

\* A name entry as the writer stores it: file_index, kind, name_len, name.
EncodeEntry(e) == LE32(e.file_index) \o LE32(e.kind) \o LE16(Len(e.name)) \o e.name

EncodeEntries(es) == Concat([i \in 1..Len(es) |-> EncodeEntry(es[i])])

Header(magic, header_size, fto) ==
    LE32(magic) \o LE32(header_size) \o Zeros(20) \o LE32(fto)

\* An archive with a valid header, the file table right after it and one region
\* per row after the table, in row order. regions[i] is the bytes of row i's
\* region; delta[i] is added to the size the row declares for it.
Layout(regions, delta) ==
    LET n == Len(regions)
        base == HEADER_LEN + FILE_ENTRY_SIZE * n
        row(i) == LE32(base + SumLen(regions, i - 1)) \o LE32(Len(regions[i]) + delta[i])
    IN [bytes |-> Header(MAGIC, HEADER_LEN, HEADER_LEN)
                    \o Concat([i \in 1..n |-> row(i)]) \o Concat(regions),
        rows |-> n]

DirEntry(i, k, nm) == [file_index |-> i, kind |-> k, name |-> nm]

\* ------------------------------------------------- ArchiveFile: the parsers

Ok(v) == [ok |-> TRUE, val |-> v, err |-> ""]
Err(e) == [ok |-> FALSE, val |-> 0, err |-> e]

E_IO == "I/O error"
E_MAGIC == "Invalid magic"
E_HDR_SHORT == "Header size too short"
E_HDR_VARIANT == "Unsupported format variant"
E_HDR_OVERLAP == "File table and file header are overlapping"
E_INDEX_ZERO == "Index cannot be 0"
E_ENTRY_INDEX_ZERO == "Invalid entry index: 0"
E_UNKNOWN_TYPE == "Unknown entry type"
E_SPAN == "Name entry spans outside of directory"
E_TOO_DEEP == "Directory hierarchy is too deep (> 128 levels)"
E_LOOP == "Directory loop detected"

\* Mutant: the upper bound of header_size is taken one too low.
HeaderSizeTooBig_Mut(header_size) == header_size >= 36

\* The upper bound of header_size that read_header accepts.
HeaderSizeTooBig(header_size) == header_size > 36

\* ArchiveFile::read_header: the file table's offset, or the error.
read_header(b) ==
    LET r == ReadExactAt(b, 0, HEADER_LEN)
        magic == read_u32(r.bytes, 0)
        header_size == read_u32(r.bytes, 4)
        fto == read_u32(r.bytes, 28)
    IN IF ~r.ok THEN Err(E_IO)
       ELSE IF magic # MAGIC THEN Err(E_MAGIC)
       ELSE IF header_size < 32 THEN Err(E_HDR_SHORT)
       ELSE IF HeaderSizeTooBig(header_size) THEN Err(E_HDR_VARIANT)
       ELSE IF fto < header_size THEN Err(E_HDR_OVERLAP)
       ELSE Ok(fto)

\* ArchiveFile::read_file_entry. The row is read wherever index points: the
\* code knows no table length, only the end of the file stops it. (An index
\* past the file's length is cut off before the multiplication: the seek would
\* land past the end and read_exact fail.)
read_file_entry(b, fto, index) ==
    IF index = 0 THEN Err(E_INDEX_ZERO)
    ELSE IF index - 1 > Len(b) THEN Err(E_IO)
    ELSE LET r == ReadExactAt(b, fto + (index - 1) * FILE_ENTRY_SIZE, FILE_ENTRY_SIZE)
         IN IF ~r.ok THEN Err(E_IO)
            ELSE Ok([offset |-> read_u32(r.bytes, 0), size |-> read_u32(r.bytes, 4)])

\* String::from_utf8_lossy on a name: an ASCII byte is its own character, a
\* byte that cannot start a sequence becomes U+FFFD. (Multi-byte sequences are
\* not modelled; the archives of this model hold ASCII names.)
from_utf8_lossy(v) == [i \in 1..Len(v) |-> IF v[i] < 128 THEN v[i] ELSE 65533]

\* ArchiveFile::read_name_entry.
read_name_entry(b, offset) ==
    LET r == ReadExactAt(b, offset, NAME_ENTRY_MIN_SIZE)
        index == read_u32(r.bytes, 0)
        kind == read_u32(r.bytes, 4)
        name_len == read_u16(r.bytes, 8)
        v == ReadExactAt(b, offset + NAME_ENTRY_MIN_SIZE, name_len)
    IN IF ~r.ok THEN Err(E_IO)
       ELSE IF index = 0 THEN Err(E_ENTRY_INDEX_ZERO)
       ELSE IF kind \notin {0, 1} THEN Err(E_UNKNOWN_TYPE)
       ELSE IF ~v.ok THEN Err(E_IO)
       ELSE Ok([file_index |-> index,
                entry_type |-> IF kind = 0 THEN "File" ELSE "Directory",
                entry_size |-> NAME_ENTRY_MIN_SIZE + name_len,
                name |-> from_utf8_lossy(v.bytes)])

\* ------------------------------------------------------ Archive::open

MAX_DEPTH == 128

\* Mutant: only the innermost directory is compared with the index.
OnStack_Mut(st, index) == st # <<>> /\ st[Len(st)] = index

\* Mutant: the span check lets an entry end one byte past the directory.
SpansOutside_Mut(cur_offset, nentry_size, max_offset) == cur_offset + nentry_size > max_offset + 1

\* read_directory_loop's two guards, and the loop's span check.
TooDeep(st) == Len(st) > MAX_DEPTH
OnStack(st, index) == \E i \in 1..Len(st) : st[i] = index
SpansOutside(cur_offset, nentry_size, max_offset) == cur_offset + nentry_size > max_offset

None == <<>>
Some(x) == <<x>>

Directory(fe, ne, fs, ds) ==
    [file_entry |-> fe, name_entry |-> ne, files |-> fs, directories |-> ds]

Top == frames[Len(frames)]

Fail(e) == pc' = "failed" /\ err' = e

\* Archive::open up to the call of read_rootdir: ArchiveFile::open reads the
\* header; read_rootdir then calls read_directory_loop(1, []).
OpenArchive ==
    /\ pc = "start"
    /\ LET h == read_header(file)
       IN IF h.ok
          THEN /\ pc' = "resolving"
               /\ filetbl_offset' = h.val
               /\ call' = 1
               /\ UNCHANGED err
          ELSE /\ Fail(h.err)
               /\ UNCHANGED <<filetbl_offset, call>>
    /\ UNCHANGED <<file, tbl_rows, stack, frames, rootdir, viewVars>>

\* read_directory_loop(call, stack) from its entry to the push of the index.
EnterDirectory ==
    /\ pc = "resolving"
    /\ call # 0
    /\ LET d == read_file_entry(file, filetbl_offset, call)
       IN IF ~d.ok THEN Fail(d.err) /\ UNCHANGED <<stack, frames, call>>
          ELSE IF TooDeep(stack) THEN Fail(E_TOO_DEEP) /\ UNCHANGED <<stack, frames, call>>
          ELSE IF OnStack(stack, call) THEN Fail(E_LOOP) /\ UNCHANGED <<stack, frames, call>>
          ELSE /\ stack' = Append(stack, call)
               /\ frames' = Append(frames,
                      [index |-> call,
                       dentry |-> d.val,
                       max_offset |-> d.val.offset + d.val.size,
                       cur_offset |-> d.val.offset,
                       dirs |-> <<>>,
                       files |-> <<>>,
                       nentry |-> None,
                       entries_read |-> <<>>])
               /\ call' = 0
               /\ UNCHANGED <<pc, err>>
    /\ UNCHANGED <<file, tbl_rows, filetbl_offset, rootdir, viewVars>>

\* One turn of the while loop of the innermost call: read the name entry at
\* cur_offset, check its span, read its file entry, then either push a File
\* or start the recursive call for a Directory.
ReadEntry ==
    /\ pc = "resolving"
    /\ call = 0
    /\ Top.cur_offset < Top.max_offset
    /\ LET f == Top
           n == read_name_entry(file, f.cur_offset)
           fe == read_file_entry(file, filetbl_offset, n.val.file_index)
           seen == Append(f.entries_read, [at |-> f.cur_offset, entry_size |-> n.val.entry_size])
       IN IF ~n.ok THEN Fail(n.err) /\ UNCHANGED <<frames, call>>
          ELSE IF SpansOutside(f.cur_offset, n.val.entry_size, f.max_offset)
               THEN Fail(E_SPAN) /\ UNCHANGED <<frames, call>>
          ELSE IF ~fe.ok THEN Fail(fe.err) /\ UNCHANGED <<frames, call>>
          ELSE IF n.val.entry_type = "File"
               THEN /\ frames' = [frames EXCEPT ![Len(frames)] =
                          [f EXCEPT !.files = Append(@, [name_entry |-> n.val, file_entry |-> fe.val]),
                                    !.cur_offset = @ + n.val.entry_size,
                                    !.entries_read = seen]]
                    /\ UNCHANGED <<pc, err, call>>
               ELSE /\ frames' = [frames EXCEPT ![Len(frames)] =
                          [f EXCEPT !.nentry = Some(n.val), !.entries_read = seen]]
                    /\ call' = n.val.file_index
                    /\ UNCHANGED <<pc, err>>
    /\ UNCHANGED <<file, tbl_rows, filetbl_offset, stack, rootdir, viewVars>>

\* The innermost call leaves its loop: pop the stack and return the Directory,
\* to Archive::open for the root, else to the caller, which names it, pushes
\* it and steps over the name entry.
ReturnDirectory ==
    /\ pc = "resolving"
    /\ call = 0
    /\ Top.cur_offset >= Top.max_offset
    /\ stack' = SubSeq(stack, 1, Len(stack) - 1)
    /\ LET f == Top
           undir == Directory(f.dentry, None, f.files, f.dirs)
           n == Len(frames)
       IN IF n = 1
          THEN /\ pc' = "ok"
               /\ rootdir' = Some(undir)
               /\ frames' = <<>>
          ELSE LET parent == frames[n - 1]
                   ne == parent.nentry[1]
                   dir == Directory(undir.file_entry, Some(ne), undir.files, undir.directories)
               IN /\ frames' = Append(SubSeq(frames, 1, n - 2),
                         [parent EXCEPT !.dirs = Append(@, dir),
                                        !.nentry = None,
                                        !.cur_offset = @ + ne.entry_size])
                  /\ UNCHANGED <<pc, rootdir>>
    /\ UNCHANGED <<file, tbl_rows, filetbl_offset, call, err, viewVars>>

NextOpen == OpenArchive \/ EnterDirectory \/ ReadEntry \/ ReturnDirectory

\* No view exists while open runs.
NoCall == [op |-> "none", arg |-> 0, outcome |-> "Ok", n |-> 0, data |-> <<>>, base |-> 0]
NoFileData ==
    [tag |-> "None",
     plain |-> [file_pos |-> 0, size |-> 0, base_offset |-> 0, cur_offset |-> 0],
     size |-> 0, cur_offset |-> 0, blocksize |-> 0, cache |-> <<>>]

ViewIdle ==
    /\ build = "release"
    /\ fentry = [offset |-> 0, size |-> 0]
    /\ payload = <<>>
    /\ fdata = NoFileData
    /\ ret = NoCall

\* ------------------------------------------- the archives SpecOpen opens

MaxIndex == 4        \* name entries refer to file indices 0..MaxIndex
MaxNameLen == 1      \* names are 0..MaxNameLen bytes long
MaxDelta == 1        \* a root row declares up to MaxDelta bytes more or less
ChainExtra == 2      \* chains run MAX_DEPTH .. MAX_DEPTH + ChainExtra deep

\* Headers around every bound read_header checks, drawn byte by byte, over a
\* body of zeros (one row (0, 0) wherever the table is said to start).
HeaderCase(m0, m3, hs0, hs1, ft0, ft1) ==
    [bytes |-> <<m0, 80, 85, m3, hs0, hs1, 0, 0>> \o Zeros(20) \o <<ft0, ft1, 0, 0>> \o Zeros(24),
     rows |-> 1]

\* A file that ends inside the header.
ShortFile == [bytes |-> SubSeq(Header(MAGIC, HEADER_LEN, HEADER_LEN), 1, HEADER_LEN - 1), rows |-> 0]

Name(nl) == [i \in 1..nl |-> 97]

Pairs == (0..MaxIndex) \X (0..2)

\* Root entry lists of zero, one or two entries.
RootEntries(nl) ==
    {<<>>}
    \cup { <<DirEntry(p[1], p[2], Name(nl))>> : p \in Pairs }
    \cup { <<DirEntry(p[1], p[2], Name(nl)), DirEntry(q[1], q[2], Name(nl))>> : p \in Pairs, q \in Pairs }

\* Row 2 is a directory: empty, or holding one directory entry.
SubEntries(nl) == {<<>>} \cup { <<DirEntry(j, 1, Name(nl))>> : j \in 1..MaxIndex }

\* The sizes a root row may declare for a region of n bytes.
Deltas(n) == { dl \in -MaxDelta..MaxDelta : n + dl >= 0 }

\* Three rows: the root directory, a directory, a one-byte file.
SmallArchive(r, d, dl) == Layout(<<EncodeEntries(r), EncodeEntries(d), <<104>>>>, <<dl, 0, 0>>)

\* n directories nested in one another; the innermost is empty ("empty"),
\* refers back to the root ("root") or to itself ("self").
Chain(n, tail) ==
    Layout([i \in 1..n |->
               IF i < n THEN EncodeEntry(DirEntry(i + 1, 1, <<>>))
               ELSE IF tail = "root" THEN EncodeEntry(DirEntry(1, 1, <<>>))
               ELSE IF tail = "self" THEN EncodeEntry(DirEntry(n, 1, <<>>))
               ELSE <<>>],
           [i \in 1..n |-> 0])

ChainTails == {"empty", "root", "self"}

\* The archive open is called on.
ZLIB_MAGIC == <<90, 76, 73, 66>>     \* "ZLIB"

\* What follows the file in the archive: nothing, the start of another ZLIB
\* payload, or other bytes.
Trailings == {<<>>, ZLIB_MAGIC \o Zeros(8), <<7, 7, 7, 7>>}

\* An archive of two rows: the root directory, holding the file "a", and the
\* file, whose bytes are stored followed by trailing.
ViewArchive(stored, trailing) ==
    Layout(<<EncodeEntries(<<DirEntry(2, 0, <<97>>)>>), stored \o trailing>>,
           <<0, -Len(trailing)>>)

OpenedArchive(a) == file = a.bytes /\ tbl_rows = a.rows

InitOpen ==
    /\ \/ \E m0 \in {66, 67}, m3 \in {76, 0}, hs0 \in {31, 32, 36, 37, 48}, hs1 \in {0, 1},
             ft0 \in {31, 32, 35, 36, 37, 40}, ft1 \in {0, 1} :
               OpenedArchive(HeaderCase(m0, m3, hs0, hs1, ft0, ft1))
       \/ OpenedArchive(ShortFile)
       \/ \E nl \in 0..MaxNameLen : \E r \in RootEntries(nl), d \in SubEntries(nl) :
             \E dl \in Deltas(Len(EncodeEntries(r))) : OpenedArchive(SmallArchive(r, d, dl))
       \/ \E k \in 0..ChainExtra, t \in ChainTails : OpenedArchive(Chain(MAX_DEPTH + k, t))
       \/ \E t \in Trailings : OpenedArchive(ViewArchive(<<>>, t))
    /\ pc = "start"
    /\ filetbl_offset = 0
    /\ stack = <<>>
    /\ frames = <<>>
    /\ call = 0
    /\ rootdir = None
    /\ err = ""
    /\ ViewIdle

SpecOpen == InitOpen /\ [][NextOpen]_vars

\* ------------------------------------------------- properties of open

\* The children of a directory (or of a call still running), as name entries.
ChildEntries(fs, ds) ==
    [i \in 1..Len(fs) |-> fs[i].name_entry] \o [i \in 1..Len(ds) |-> ds[i].name_entry[1]]

RECURSIVE SumEntrySize(_, _)
SumEntrySize(es, n) == IF n = 0 THEN 0 ELSE es[n].entry_size + SumEntrySize(es, n - 1)

SizeOfChildren(d) ==
    LET es == ChildEntries(d.files, d.directories) IN SumEntrySize(es, Len(es))

\* The header fields as the format lays them out (section 6.1 of the spec).
HdrField(o) == file[o + 1] + file[o + 2] * 256 + file[o + 3] * 65536 + file[o + 4] * 16777216

HeaderInvalid == {E_MAGIC, E_HDR_SHORT, E_HDR_VARIANT, E_HDR_OVERLAP}

\* open has failed in read_header: no call of read_directory_loop was made.
RejectedByHeader == pc = "failed" /\ call = 0 /\ frames = <<>>

\* C10: once read_header has run on a file of at least 32 bytes, the header is
\* accepted exactly when magic = 0x4C555042, 0x20 <= header_size <= 0x24 and
\* filetbl_offset (bytes 0x1C..0x20) >= header_size; an accepted header sets
\* filetbl_offset, a rejected one fails with a header error and leaves no
\* archive.
C10_HeaderAcceptance ==
    (pc # "start" /\ Len(file) >= HEADER_LEN) =>
        LET good == /\ HdrField(0) = 1280659522
                    /\ 32 <= HdrField(4) /\ HdrField(4) <= 36
                    /\ HdrField(28) >= HdrField(4)
        IN /\ RejectedByHeader <=> ~good
           /\ RejectedByHeader => err \in HeaderInvalid /\ rootdir = None
           /\ ~RejectedByHeader => filetbl_offset = HdrField(28)

\* C10 witness: a header at both upper bounds (header_size = filetbl_offset =
\* 0x24) has been accepted.
C10_Witness == pc = "resolving" /\ HdrField(4) = 36 /\ filetbl_offset = 36

\* C3: the path never holds more than 128 directories, so no accepted archive
\* is deeper than 128.
C3_DepthAtMost128 == Len(stack) <= 128 /\ Len(frames) <= 128

NoDuplicates(st) == \A i, j \in 1..Len(st) : st[i] = st[j] => i = j

\* A call of read_directory_loop has failed on an index that is on the path.
FailedOnPath == pc = "failed" /\ call # 0 /\ OnStack(stack, call)

EntriesInSpan(f) ==
    LET es == f.entries_read
    IN /\ \A i \in 1..Len(es) :
            /\ es[i].at = (IF i = 1 THEN f.dentry.offset ELSE es[i - 1].at + es[i - 1].entry_size)
            /\ es[i].at + es[i].entry_size <= f.dentry.offset + f.dentry.size
       /\ f.cur_offset = (IF es = <<>> THEN f.dentry.offset
                          ELSE IF f.nentry # None THEN es[Len(es)].at
                          ELSE es[Len(es)].at + es[Len(es)].entry_size)

\* C5: every name entry read for a directory lies within [offset, offset+size)
\* and the entries are contiguous from offset; every directory that has been
\* resolved (the root, or a child handed to its parent) has entries whose
\* entry_size values sum to its size; and open fails with NameEntrySpanOverrun
\* on a name entry that is read and ends past offset + size.
C5_EntriesFillDirectory ==
    /\ \A k \in 1..Len(frames) :
          /\ EntriesInSpan(frames[k])
          /\ \A i \in 1..Len(frames[k].dirs) :
                SizeOfChildren(frames[k].dirs[i]) = frames[k].dirs[i].file_entry.size
    /\ pc = "ok" => SizeOfChildren(rootdir[1]) = rootdir[1].file_entry.size
    /\ (pc = "failed" /\ call = 0 /\ frames # <<>>) =>
          LET n == read_name_entry(file, Top.cur_offset)
          IN (n.ok /\ Top.cur_offset + n.val.entry_size > Top.dentry.offset + Top.dentry.size)
                => err = E_SPAN

\* C5 witness: an archive is accepted whose root holds two entries, one of
\* them a directory that holds an entry itself.
C5_Witness ==
    /\ pc = "ok"
    /\ Len(rootdir[1].files) + Len(rootdir[1].directories) = 2
    /\ \E i \in 1..Len(rootdir[1].directories) : rootdir[1].directories[i].file_entry.size > 0

\* C6: every child of the root of an accepted archive has a file_index that is
\* a row of the file table.
C6_IndexInTable ==
    pc = "ok" =>
        LET es == ChildEntries(rootdir[1].files, rootdir[1].directories)
        IN \A i \in 1..Len(es) : 1 <= es[i].file_index /\ es[i].file_index <= tbl_rows

\* ------------------------------------------------------ integer widths

IntBits == 8         \* u64 and i64 are IntBits wide here (TLC's integers are 32)

RECURSIVE Pow2(_)
Pow2(n) == IF n = 0 THEN 1 ELSE 2 * Pow2(n - 1)

I64_MAX == Pow2(IntBits - 1) - 1
I64_MIN == -Pow2(IntBits - 1)
U64_MOD == Pow2(IntBits)

Max(a, b) == IF a > b THEN a ELSE b

\* a + b in i64 and a - b in u64: whether it overflows, and the wrapped value.
AddI64(a, b) ==
    LET x == a + b
    IN [ovf |-> x > I64_MAX \/ x < I64_MIN,
        val |-> IF x > I64_MAX THEN x - U64_MOD ELSE IF x < I64_MIN THEN x + U64_MOD ELSE x]

SubU64(a, b) == [ovf |-> a < b, val |-> IF a < b THEN a - b + U64_MOD ELSE a - b]

\* What an overflowing operation does: a panic with overflow checks on, the
\* wrapped value without.
Overflows(r) == r.ovf /\ build = "debug"

\* ------------------------------------------------------ FileDataPlain

\* FileDataPlain::from: the handle (at position pos) and the entry's span.
FileDataPlain_from(pos, fe) ==
    [file_pos |-> pos, size |-> fe.size, base_offset |-> fe.offset, cur_offset |-> 0]

\* The bytes left in the archive file at the handle's position.
FileAvail(pl) == Max(0, Len(file) - pl.file_pos)

\* FileDataPlain::read, buf.len() = n: the clamp, and the counts fs::File::read
\* may hand back for it (0 only for an empty request or at the end of the file).
PlainReadable_Mut(pl, n) == n

PlainReadable(pl, n) == Min(pl.size - pl.cur_offset, n)

PlainReadCounts(pl, n) ==
    LET m == Min(PlainReadable(pl, n), FileAvail(pl))
    IN IF m = 0 THEN {0} ELSE 1..m

PlainRead(pl, k) ==
    [plain |-> [pl EXCEPT !.cur_offset = @ + k, !.file_pos = @ + k],
     bytes |-> SubSeq(file, pl.file_pos + 1, pl.file_pos + k)]

\* Read::read_exact over FileDataPlain::read: it reads until n bytes are in, or
\* fails with UnexpectedEof once read returns 0, keeping what it consumed.
PlainReadExact(pl, n) ==
    LET got == Min(n, Min(pl.size - pl.cur_offset, FileAvail(pl)))
        r == PlainRead(pl, got)
    IN [ok |-> got = n, plain |-> r.plain, bytes |-> r.bytes]

\* FileDataPlain::seek.
PlainSeek(pl, style, o) ==
    LET to(t) == [outcome |-> "Ok", n |-> t,
                  plain |-> [pl EXCEPT !.file_pos = pl.base_offset + t, !.cur_offset = t]]
        no(what) == [outcome |-> what, n |-> 0, plain |-> pl]
        wanted == AddI64(IF style = "End" THEN pl.size ELSE pl.cur_offset, o)
    IN IF style = "Start"
       THEN IF o > pl.size THEN no("Err") ELSE to(o)
       ELSE IF Overflows(wanted) THEN no("Panic")
       ELSE IF style = "End"
       THEN IF o > 0 THEN no("Err")
            ELSE IF wanted.val < 0 THEN no("Err")
            ELSE to(wanted.val)
       ELSE IF wanted.val < 0 THEN no("Err")
            ELSE IF wanted.val > pl.size THEN no("Err")
            ELSE to(wanted.val)

\* ------------------------------------------------------ FileDataZlib

ZLIB_BLOCKTBL_OFFSET == 12
ZLIB_MAX_CACHE_ENTRIES == 2
ZLIB_MAX_BLOCKSIZE == 16777216

\* libflate's zlib Decoder is not part of the repository. Decoder::new checks
\* the two header bytes as RFC 1950 lays them down; the DEFLATE stream behind
\* them is stood in for by a run: a length and the first of consecutive byte
\* values.
ZlibHeaderOk(cmf, flg) ==
    /\ (cmf * 256 + flg) % 31 = 0
    /\ cmf % 16 = 8
    /\ cmf \div 16 <= 7
    /\ (flg \div 32) % 2 = 0

Decoder_new(bytes) == Len(bytes) >= 2 /\ ZlibHeaderOk(bytes[1], bytes[2])

InflatedStream(bytes) ==
    IF Len(bytes) >= 4 THEN [i \in 1..bytes[3] |-> bytes[4] + i - 1] ELSE <<>>

\* Decoder::new(&plain_block)? and decoder.read_exact(&mut inflated_block)?
\* with inflated_block of unpack_size bytes: read_exact of an empty buffer
\* succeeds without reading.
Inflate(bytes, unpack_size) ==
    IF ~Decoder_new(bytes) THEN [ok |-> FALSE, bytes |-> <<>>]
    ELSE IF unpack_size = 0 THEN [ok |-> TRUE, bytes |-> <<>>]
    ELSE IF Len(InflatedStream(bytes)) >= unpack_size
         THEN [ok |-> TRUE, bytes |-> SubSeq(InflatedStream(bytes), 1, unpack_size)]
    ELSE [ok |-> FALSE, bytes |-> <<>>]

\* FileDataZlib::parse_header.
parse_header(header) ==
    LET size == read_u32(header, 4)
        blocksize == read_u32(header, 8)
    IN IF SubSeq(header, 1, 4) # ZLIB_MAGIC THEN Err("Invalid magic")
       ELSE IF blocksize = 0 THEN Err("Block size is 0")
       ELSE IF blocksize > ZLIB_MAX_BLOCKSIZE THEN Err("Block size is exceeding the maximum allowed")
       ELSE Ok([size |-> size, blocksize |-> blocksize])

\* The number of blocks and the length of the last one, as
\* read_block_offset_and_size computes them.
PartialBlockSize(z) == z.size % z.blocksize

NumBlocks(z) ==
    IF PartialBlockSize(z) > 0 THEN z.size \div z.blocksize + 1 ELSE z.size \div z.blocksize

\* let x = v; body(x): each intermediate result of the functions below is
\* bound once and then used.
Bind(v, body(_)) == body(v)

\* FileDataZlib::read_block_offset_and_size: (start_off, size, unpacked_size),
\* an error or a panic, and the state it leaves self.plain in.
read_block_offset_and_size(z, idx) ==
    Bind(PlainSeek(z.plain, "Start", ZLIB_BLOCKTBL_OFFSET + idx * 4), LAMBDA sk :
    Bind(PlainReadExact(sk.plain, 4), LAMBDA r1 :
    Bind(PlainReadExact(r1.plain, 4), LAMBDA r2 :
    LET last_block == NumBlocks(z) - 1
        start_off == read_u32(r1.bytes, 0)
        end_off == IF idx = last_block THEN z.plain.size ELSE read_u32(r2.bytes, 0)
        unpacked_size == IF idx = last_block THEN PartialBlockSize(z) ELSE z.blocksize
        after == IF idx = last_block THEN r1.plain ELSE r2.plain
        size == SubU64(end_off, start_off)
        out(what, pl) == [outcome |-> what, plain |-> pl, start_off |-> 0, size |-> 0, unpacked_size |-> 0]
    IN IF idx >= NumBlocks(z) THEN out("Panic", z.plain)
       \* (num_blocks = 0 would return here, but then idx >= num_blocks above)
       ELSE IF sk.outcome # "Ok" THEN out("Err", z.plain)
       ELSE IF ~r1.ok THEN out("Err", r1.plain)
       ELSE IF idx # last_block /\ ~r2.ok THEN out("Err", r2.plain)
       ELSE IF Overflows(size) THEN out("Panic", after)
       ELSE IF size.val > z.blocksize THEN out("Err", after)
       ELSE [outcome |-> "Ok", plain |-> after, start_off |-> start_off,
             size |-> size.val, unpacked_size |-> unpacked_size])))

\* FileDataZlib::read_block.
read_block(z, idx) ==
    Bind(read_block_offset_and_size(z, idx), LAMBDA h :
    Bind(PlainSeek(h.plain, "Start", h.start_off), LAMBDA sk :
    Bind(PlainReadExact(sk.plain, h.size), LAMBDA rd :
    Bind(Inflate(rd.bytes, h.unpacked_size), LAMBDA inf :
    LET out(what, pl, blk) == [outcome |-> what, plain |-> pl, block |-> blk]
    IN IF h.outcome # "Ok" THEN out(h.outcome, h.plain, <<>>)
       ELSE IF sk.outcome # "Ok" THEN out("Err", h.plain, <<>>)
       ELSE IF ~rd.ok THEN out("Err", rd.plain, <<>>)
       ELSE IF h.size = h.unpacked_size THEN out("Ok", rd.plain, rd.bytes)
       ELSE IF ~inf.ok THEN out("Err", rd.plain, <<>>)
       ELSE out("Ok", rd.plain, inf.bytes)))))

Keys(cache) == DOMAIN cache
MinKey(cache) == CHOOSE k \in Keys(cache) : \A j \in Keys(cache) : k <= j
MaxKey(cache) == CHOOSE k \in Keys(cache) : \A j \in Keys(cache) : k >= j
Remove(cache, k) == [j \in Keys(cache) \ {k} |-> cache[j]]

\* FileDataZlib::evict_another_entry: its two panics, and the entry it removes.
EvictPanics(cache, idx) ==
    \/ Cardinality(Keys(cache)) = 0
    \/ Cardinality(Keys(cache)) = 1 /\ idx \in Keys(cache)

evict_another_entry_Mut(cache, idx) == Remove(cache, MaxKey(cache))

evict_another_entry(cache, idx) ==
    IF MinKey(cache) = idx THEN Remove(cache, MaxKey(cache)) ELSE Remove(cache, MinKey(cache))

EvictLoop_Mut(cache, idx) == [panic |-> FALSE, cache |-> cache]

\* The while loop of get_block.
RECURSIVE EvictLoop(_, _)
EvictLoop(cache, idx) ==
    IF Cardinality(Keys(cache)) >= ZLIB_MAX_CACHE_ENTRIES
    THEN IF EvictPanics(cache, idx) THEN [panic |-> TRUE, cache |-> cache]
         ELSE EvictLoop(evict_another_entry(cache, idx), idx)
    ELSE [panic |-> FALSE, cache |-> cache]

get_block_Mut(z, idx) ==
    Bind(read_block(z, idx), LAMBDA rb :
    Bind(EvictLoop(z.cache, idx), LAMBDA ev :
    IF idx \in Keys(z.cache) THEN [outcome |-> "Ok", z |-> z, block |-> z.cache[idx]]
    ELSE IF ev.panic
         THEN [outcome |-> "Panic", z |-> [z EXCEPT !.plain = rb.plain], block |-> <<>>]
    ELSE IF rb.outcome # "Ok"
         THEN [outcome |-> rb.outcome, z |-> [z EXCEPT !.plain = rb.plain, !.cache = ev.cache],
               block |-> <<>>]
    ELSE [outcome |-> "Ok",
          z |-> [z EXCEPT !.plain = rb.plain, !.cache = (idx :> rb.block) @@ ev.cache],
          block |-> rb.block]))

\* FileDataZlib::get_block.
get_block(z, idx) ==
    Bind(read_block(z, idx), LAMBDA rb :
    Bind(EvictLoop(z.cache, idx), LAMBDA ev :
    IF idx \in Keys(z.cache) THEN [outcome |-> "Ok", z |-> z, block |-> z.cache[idx]]
    ELSE IF rb.outcome # "Ok"
         THEN [outcome |-> rb.outcome, z |-> [z EXCEPT !.plain = rb.plain], block |-> <<>>]
    ELSE IF ev.panic
         THEN [outcome |-> "Panic", z |-> [z EXCEPT !.plain = rb.plain], block |-> <<>>]
    ELSE [outcome |-> "Ok",
          z |-> [z EXCEPT !.plain = rb.plain, !.cache = (idx :> rb.block) @@ ev.cache],
          block |-> rb.block]))

\* The loop of FileDataZlib::read with size_left bytes of the buffer left and
\* out already copied. The clamp of size_left before the loop is a statement
\* without effect. A turn that copies nothing repeats for ever ("Hang"); a
\* block shorter than block_offset underflows the subtraction (a panic with
\* overflow checks, else a slice past the block's end, a panic as well).
RECURSIVE ReadLoop(_, _, _)
ReadLoop(z, size_left, out) ==
    Bind(get_block(z, z.cur_offset \div z.blocksize), LAMBDA g :
    LET block_offset == z.cur_offset % z.blocksize
        room == Len(g.block) - block_offset
        to_copy == IF size_left < room THEN size_left ELSE room
        copied == SubSeq(g.block, block_offset + 1, block_offset + to_copy)
    IN IF ~(size_left > 0 /\ z.cur_offset < z.size) THEN [outcome |-> "Ok", z |-> z, data |-> out]
       ELSE IF g.outcome # "Ok" THEN [outcome |-> g.outcome, z |-> g.z, data |-> out]
       ELSE IF room < 0 THEN [outcome |-> "Panic", z |-> g.z, data |-> out]
       ELSE IF to_copy = 0 THEN [outcome |-> "Hang", z |-> g.z, data |-> out]
       ELSE ReadLoop([g.z EXCEPT !.cur_offset = @ + to_copy], size_left - to_copy, out \o copied))

\* FileDataZlib::read with buf.len() = n.
ZlibRead(z, n) == ReadLoop(z, n, <<>>)

\* FileDataZlib::seek: the tests of FileDataPlain::seek against the expanded
\* size, moving cur_offset only.
ZlibSeek(z, style, o) ==
    LET to(t) == [outcome |-> "Ok", n |-> t, z |-> [z EXCEPT !.cur_offset = t]]
        no(what) == [outcome |-> what, n |-> 0, z |-> z]
        wanted == AddI64(IF style = "End" THEN z.size ELSE z.cur_offset, o)
    IN IF style = "Start"
       THEN IF o > z.size THEN no("Err") ELSE to(o)
       ELSE IF Overflows(wanted) THEN no("Panic")
       ELSE IF style = "End"
       THEN IF o > 0 THEN no("Err")
            ELSE IF wanted.val < 0 THEN no("Err")
            ELSE to(wanted.val)
       ELSE IF wanted.val < 0 THEN no("Err")
            ELSE IF wanted.val > z.size THEN no("Err")
            ELSE to(wanted.val)

\* ------------------------------------------------------ FileData

\* FileDataZlib::from on the handle at the entry's offset.
FileDataZlib_from(fe) ==
    LET r == PlainReadExact(FileDataPlain_from(fe.offset, fe), ZLIB_BLOCKTBL_OFFSET)
        h == parse_header(r.bytes)
    IN IF ~r.ok \/ ~h.ok THEN [NoFileData EXCEPT !.tag = "Failed"]
       ELSE [tag |-> "Zlib", plain |-> r.plain, size |-> h.val.size,
             cur_offset |-> 0, blocksize |-> h.val.blocksize, cache |-> <<>>]

\* FileData::new: seek to the entry's offset, read_exact four bytes of magic
\* from the archive file itself, seek back, and build the variant.
FileData_new(fe) ==
    LET magic == ReadExactAt(file, fe.offset, 4)
    IN IF ~magic.ok THEN [NoFileData EXCEPT !.tag = "Failed"]
       ELSE IF magic.bytes = ZLIB_MAGIC THEN FileDataZlib_from(fe)
       ELSE [NoFileData EXCEPT !.tag = "Plain", !.plain = FileDataPlain_from(fe.offset, fe)]

\* FileData::size.
FileData_size(fd) == IF fd.tag = "Zlib" THEN fd.size ELSE fd.plain.size

\* The cursor the caller sees.
Cur(fd) == IF fd.tag = "Zlib" THEN fd.cur_offset ELSE fd.plain.cur_offset

\* A view exists and its last call came back (no panic, no endless loop).
Alive == fdata.tag \in {"Plain", "Zlib"} /\ ret.outcome \in {"Ok", "Err"}

MaxBuf == 3          \* read is called with buffers of 0..MaxBuf bytes
MaxSize == 6         \* logical payloads are 0..MaxSize bytes long
MaxBlock == 5        \* ZLIB block sizes are 1..MaxBlock

\* Archive::file_data(file): the view is built.
NewFileData ==
    /\ fdata.tag = "None"
    /\ fdata' = FileData_new(fentry)
    /\ ret' = [NoCall EXCEPT !.op = "new",
                             !.outcome = IF fdata'.tag = "Failed" THEN "Err" ELSE "Ok"]
    /\ UNCHANGED <<file, tbl_rows, openVars, build, fentry, payload>>

\* FileData::read(buf), buf.len() = n.
Read ==
    /\ Alive
    /\ \E n \in 0..MaxBuf :
          IF fdata.tag = "Plain"
          THEN \E k \in PlainReadCounts(fdata.plain, n) :
                  LET r == PlainRead(fdata.plain, k)
                  IN /\ fdata' = [fdata EXCEPT !.plain = r.plain]
                     /\ ret' = [op |-> "read", arg |-> n, outcome |-> "Ok", n |-> k,
                                data |-> r.bytes, base |-> Cur(fdata)]
          ELSE Bind(ZlibRead(fdata, n), LAMBDA r :
                  /\ fdata' = r.z
                  /\ ret' = [op |-> "read", arg |-> n, outcome |-> r.outcome,
                             n |-> IF r.outcome = "Ok" THEN Len(r.data) ELSE 0,
                             data |-> r.data, base |-> Cur(fdata)])
    /\ UNCHANGED <<file, tbl_rows, openVars, build, fentry, payload>>

SeekStyles == {"Start", "End", "Current"}

\* The position a seek counts from.
SeekBase(fd, style) ==
    IF style = "Start" THEN 0 ELSE IF style = "End" THEN FileData_size(fd) ELSE Cur(fd)

\* The offsets seek is called with. SeekFrom::Start takes a u64: every position
\* and one past the end. End and Current take an i64: both ends of i64, a step
\* either way, and the offsets that aim at -1, 0, size and size + 1.
SeekOffsets(fd, style) ==
    IF style = "Start" THEN 0..(FileData_size(fd) + 1)
    ELSE {I64_MIN, I64_MAX, -1, 0, 1}
         \cup { t - SeekBase(fd, style) : t \in {-1, 0, FileData_size(fd), FileData_size(fd) + 1} }

\* FileData::seek(style(o)).
Seek ==
    /\ Alive
    /\ \E style \in SeekStyles : \E o \in SeekOffsets(fdata, style) :
          IF fdata.tag = "Plain"
          THEN LET r == PlainSeek(fdata.plain, style, o)
               IN /\ fdata' = [fdata EXCEPT !.plain = r.plain]
                  /\ ret' = [op |-> style, arg |-> o, outcome |-> r.outcome, n |-> r.n,
                             data |-> <<>>, base |-> SeekBase(fdata, style)]
          ELSE LET r == ZlibSeek(fdata, style, o)
               IN /\ fdata' = r.z
                  /\ ret' = [op |-> style, arg |-> o, outcome |-> r.outcome, n |-> r.n,
                             data |-> <<>>, base |-> SeekBase(fdata, style)]
    /\ UNCHANGED <<file, tbl_rows, openVars, build, fentry, payload>>

NextView == NewFileData \/ Read \/ Seek

\* ------------------------------------------- the files SpecView looks at

\* The logical bytes of a file of L bytes: "A", "B", "C", ...
LogicalPayload(L) == [i \in 1..L |-> 64 + i]

\* The stand-in frame of a block's bytes (see InflatedStream).
Deflate(content) == <<120, 156, Len(content), content[1]>>

\* A block as stored: compressed when asked and when that is shorter, else raw.
PackBlock(content, compress) ==
    IF compress /\ Len(Deflate(content)) < Len(content) THEN Deflate(content) ELSE content

CeilDiv(a, b) == (a + b - 1) \div b

\* The ZLIB payload of P in blocks of B bytes; block k (from 0) is compressed
\* when k is in comp.
ZlibPayload(P, B, comp) ==
    LET N == CeilDiv(Len(P), B)
        blocks == [k \in 1..N |->
                      PackBlock(SubSeq(P, (k - 1) * B + 1, Min(k * B, Len(P))), (k - 1) \in comp)]
        first == ZLIB_BLOCKTBL_OFFSET + 4 * N
    IN ZLIB_MAGIC \o LE32(Len(P)) \o LE32(B)
         \o Concat([k \in 1..N |-> LE32(first + SumLen(blocks, k - 1))])
         \o Concat(blocks)

\* The file's own row, as open reads it.
FileRow(a) == read_file_entry(a.bytes, HEADER_LEN, 2).val

ViewOf(P, stored, trailing) ==
    LET a == ViewArchive(stored, trailing)
    IN /\ file = a.bytes
       /\ tbl_rows = a.rows
       /\ fentry = FileRow(a)
       /\ payload = P

InitView ==
    /\ pc = "ok"
    /\ filetbl_offset = HEADER_LEN
    /\ stack = <<>>
    /\ frames = <<>>
    /\ call = 0
    /\ rootdir = None
    /\ err = ""
    /\ build \in {"debug", "release"}
    /\ \E L \in 0..MaxSize :
          \/ \E trailing \in Trailings : ViewOf(LogicalPayload(L), LogicalPayload(L), trailing)
          \/ \E B \in 1..MaxBlock : \E comp \in SUBSET (0..(CeilDiv(L, B) - 1)) :
                /\ \A k \in comp : Min(B, L - k * B) > Len(Deflate(<<0>>))
                /\ ViewOf(LogicalPayload(L), ZlibPayload(LogicalPayload(L), B, comp), <<>>)
    /\ fdata = NoFileData
    /\ ret = NoCall

SpecView == InitView /\ [][NextView]_vars

\* ------------------------------------- the files SpecTable looks at

MaxTableSize == 4    \* payloads behind a damaged block table are 1..MaxTableSize long

\* A ZLIB payload whose block table entry k holds v.
WithTableEntry(stored, k, v) ==
    SubSeq(stored, 1, ZLIB_BLOCKTBL_OFFSET + 4 * k) \o LE32(v)
        \o SubSeq(stored, ZLIB_BLOCKTBL_OFFSET + 4 * k + 5, Len(stored))

\* Entry k moved: B or 1 down (the block grows past B, the one before it
\* shrinks), or B + 1 up (the block starts behind its end).
TableShifts(B) == {-B, -1, B + 1}

InitTable ==
    /\ pc = "ok"
    /\ filetbl_offset = HEADER_LEN
    /\ stack = <<>>
    /\ frames = <<>>
    /\ call = 0
    /\ rootdir = None
    /\ err = ""
    /\ build \in {"debug", "release"}
    /\ \E L \in 1..MaxTableSize : \E B \in 1..MaxBlock :
          \E k \in 0..(CeilDiv(L, B) - 1) : \E d \in TableShifts(B) :
             LET stored == ZlibPayload(LogicalPayload(L), B, {})
                 v == read_u32(stored, ZLIB_BLOCKTBL_OFFSET + 4 * k) + d
             IN ViewOf(LogicalPayload(L), WithTableEntry(stored, k, v), <<>>)
    /\ fdata = NoFileData
    /\ ret = NoCall

SpecTable == InitTable /\ [][NextView]_vars

\* ------------------------------------------------- properties of the views

\* C1: every read of a ZLIB view comes back without error with the bytes of
\* the payload that start at the cursor, and comes back empty only for an
\* empty buffer or at the end of the payload; so seek(Start(t)) followed by
\* reads until one returns 0 yields P[t..L), for every L and B.
C1_ZlibReadsYieldPayload ==
    (fdata.tag = "Zlib" /\ ret.op = "read") =>
        /\ ret.outcome = "Ok"
        /\ ret.data = SubSeq(payload, ret.base + 1, ret.base + ret.n)
        /\ (ret.n = 0 => ret.arg = 0 \/ ret.base = Len(payload))

\* C2: whatever reads and seeks a ZLIB view has served, and however they
\* ended, its block cache holds at most 2 decoded blocks.
C2_CacheAtMostTwo ==
    fdata.tag = "Zlib" => Cardinality(Keys(fdata.cache)) <= 2

\* A read that went through three blocks: the first one it copied from has
\* been evicted again, and two blocks are cached.
C2_Witness ==
    /\ fdata.tag = "Zlib"
    /\ ret.op = "read" /\ ret.outcome = "Ok" /\ ret.n > 0
    /\ Cardinality(Keys(fdata.cache)) = 2
    /\ (ret.base \div fdata.blocksize) \notin Keys(fdata.cache)

\* C7: a successful read(buf) of either variant returns n <= min(buf.len(),
\* size - cur), moves cur on by exactly n and leaves 0 <= cur <= size.
C7_ReadCountAndCursor ==
    (fdata.tag \in {"Plain", "Zlib"} /\ ret.op = "read" /\ ret.outcome = "Ok") =>
        /\ ret.n <= Min(ret.arg, FileData_size(fdata) - ret.base)
        /\ Cur(fdata) = ret.base + ret.n
        /\ 0 <= Cur(fdata) /\ Cur(fdata) <= FileData_size(fdata)

\* A read of a plain view in front of other bytes of the archive, cut short
\* by the end of the view.
C7_Witness ==
    /\ fdata.tag = "Plain"
    /\ ret.op = "read" /\ ret.outcome = "Ok"
    /\ ret.n > 0 /\ ret.n < ret.arg
    /\ Cur(fdata) = FileData_size(fdata)
    /\ fentry.offset + fentry.size < Len(file)

\* C8: seek of either variant, from Start, End or Current, succeeds exactly
\* when its target t (the base plus the offset) has 0 <= t <= size, and then
\* sets cur to t and returns t; every other target is rejected with an error.
C8_SeekExactlyInRange ==
    (fdata.tag \in {"Plain", "Zlib"} /\ ret.op \in SeekStyles) =>
        LET t == ret.base + ret.arg
        IN IF 0 <= t /\ t <= FileData_size(fdata)
           THEN ret.outcome = "Ok" /\ Cur(fdata) = t /\ ret.n = t
           ELSE ret.outcome = "Err"

\* C9: the view of a file whose table row has size 0 is built, wherever the
\* row points and whatever bytes lie there; its size is 0 and a read of it
\* returns 0 bytes.
C9_EmptyFileHasView ==
    (fentry.size = 0 /\ ret.op # "none") =>
        /\ fdata.tag \in {"Plain", "Zlib"}
        /\ FileData_size(fdata) = 0
        /\ (ret.op = "read" => ret.outcome = "Ok" /\ ret.n = 0)

\* The blocks of a ZLIB view, as the format counts them.
BlockIndices(z) == 0..(CeilDiv(z.size, z.blocksize) - 1)

\* C11: a ZLIB view of S > 0 bytes in blocks of B has N = ceil(S / B) blocks;
\* the unpacked length computed for block k is B for k < N - 1, and for the
\* last block S mod B when S is not a multiple of B and B when it is.
C11_UnpackedLengths ==
    (fdata.tag = "Zlib" /\ fdata.size > 0) =>
        /\ NumBlocks(fdata) = CeilDiv(fdata.size, fdata.blocksize)
        /\ \A k \in BlockIndices(fdata) :
              LET h == read_block_offset_and_size(fdata, k)
                  rest == fdata.size % fdata.blocksize
              IN h.outcome = "Ok" =>
                    h.unpacked_size = IF k < NumBlocks(fdata) - 1 \/ rest = 0
                                      THEN fdata.blocksize ELSE rest

\* What C13 says get_block(k) leaves in a cache: the cache itself on a hit;
\* on a miss the new block next to the old ones, without the one of the
\* smallest index when two were held.
CacheAfter(cache, k, block) ==
    IF k \in Keys(cache) THEN cache
    ELSE IF Cardinality(Keys(cache)) = 2
         THEN (k :> block) @@ [j \in Keys(cache) \ {MinKey(cache)} |-> cache[j]]
    ELSE (k :> block) @@ cache

\* C13: get_block(k) leaves the cache alone on a hit; on a miss with two
\* blocks cached it removes exactly the one of the smallest index and then
\* inserts k; after every successful get_block(k) block k is cached.
C13_EvictsSmallest ==
    fdata.tag = "Zlib" =>
        \A k \in BlockIndices(fdata) :
            LET g == get_block(fdata, k)
            IN g.outcome = "Ok" =>
                  /\ k \in Keys(g.z.cache)
                  /\ g.z.cache = CacheAfter(fdata.cache, k, g.block)

\* Two blocks are cached after a read evicted the smallest, and a third one
\* can be fetched.
C13_Witness ==
    /\ fdata.tag = "Zlib"
    /\ ret.op = "read" /\ ret.outcome = "Ok"
    /\ Cardinality(Keys(fdata.cache)) = 2
    /\ MinKey(fdata.cache) > ret.base \div fdata.blocksize
    /\ \E k \in BlockIndices(fdata) \ Keys(fdata.cache) : get_block(fdata, k).outcome = "Ok"

\* C14: a ZLIB read that returns an error after it copied bytes of earlier
\* blocks leaves the view as the read of just those bytes leaves it: cur is
\* advanced by the bytes copied, the cache holds what the fetches before the
\* failing one left (nothing evicted, the failing block not inserted), and
\* the view takes further calls.
C14_FailedReadKeepsProgress ==
    [][(fdata.tag = "Zlib" /\ ret'.op = "read" /\ ret'.outcome = "Err") =>
          LET copied == Len(ret'.data)
              upto == ZlibRead(fdata, copied)
          IN /\ upto.outcome = "Ok" /\ upto.data = ret'.data
             /\ fdata'.cur_offset = fdata.cur_offset + copied
             /\ fdata'.cache = upto.z.cache
             /\ (fdata'.cur_offset \div fdata'.blocksize) \notin Keys(fdata'.cache)
             /\ Alive']_vars

\* A read through two cached blocks failed on the third.
C14_Witness ==
    /\ fdata.tag = "Zlib"
    /\ ret.op = "read" /\ ret.outcome = "Err"
    /\ Len(ret.data) >= 2
    /\ Cur(fdata) = ret.base + Len(ret.data)
    /\ Cardinality(Keys(fdata.cache)) = 2

\* C15: every read of a ZLIB view comes back: each turn of its loop returns
\* an error or copies at least one byte.
C15_ReadTerminates ==
    (fdata.tag = "Zlib" /\ ret.op = "read") => ret.outcome # "Hang"

\* The block table as it lies in the archive: where packed block k starts
\* and ends.
PackStart(k) == read_u32(file, fentry.offset + ZLIB_BLOCKTBL_OFFSET + 4 * k)

PackEnd(k) ==
    IF k = CeilDiv(fdata.size, fdata.blocksize) - 1 THEN fentry.size ELSE PackStart(k + 1)

\* C12: whatever the block table holds, get_block(k) accepts no packed block
\* longer than B: when pack_end(k) - pack_start(k) > B, and when pack_start(k)
\* > pack_end(k), it fails with the invalid-data error and caches nothing.
C12_OverlargeBlockRejected ==
    fdata.tag = "Zlib" =>
        \A k \in BlockIndices(fdata) :
            (PackEnd(k) - PackStart(k) > fdata.blocksize \/ PackStart(k) > PackEnd(k)) =>
                LET g == get_block(fdata, k)
                IN g.outcome = "Err" /\ g.z.cache = fdata.cache

====
